---- MODULE Spec2Model ----
(***************************************************************************)
(* AuthProvider (src/contexts/AuthContext.tsx): the React state mirrored   *)
(* from the auth provider's event stream, the mount effect (subscription   *)
(* and session fetch) and the five operations exposed through the context. *)
(* Every synchronous block of the component (a callback, the part of an    *)
(* async function between two awaits) is one atomic action: the UI thread  *)
(* runs it to completion.  The provider, its event stream, the promises in *)
(* flight and local storage are the environment.                           *)
(***************************************************************************)
EXTENDS Integers, Sequences, FiniteSets, Bags, TLC

VARIABLES
    session,      \* useState<Session | null>        (line 21)
    user,         \* useState<User | null>           (line 22)
    isLoading,    \* useState(true)                  (line 23)
    storage,      \* localStorage: the set of keys that are present
    phase,        \* "rendered" (effect not yet run), "mounted", "unmounted"
    subs,         \* number of active stream subscriptions of the effect
    effUser,      \* the `user` captured by the closure of the subscribed handler
    provSession,  \* the provider's current session
    events,       \* auth events emitted by the provider, not yet delivered
    fetches,      \* getSession() promises in flight
    calls,        \* calls of the exposed operations suspended at their await
    last,         \* what the latest step did: operation, result, notifications
    initialDone,  \* history: isLoading has been false at least once
    nInputs       \* number of provider-side changes and operation calls so far

vars == <<session, user, isLoading, storage, phase, subs, effUser,
          provSession, events, fetches, calls, last, initialDone, nInputs>>

----------------------------------------------------------------------------
(* Bounds of the model *)

NumSessions == 2
MaxInputs == 2
MaxOrders == 2

----------------------------------------------------------------------------
(* Values *)

NULL == <<>>

\* A session object and the user object it carries (session.user).  Every
\* session object has a user object of its own.
Sessions == {<<"session", i>> : i \in 1..NumSessions}

\* error.message of a failed provider call
Errors == {"Invalid credentials"}

StorageKeys == {"cart", "favorites"}

Unread == <<"pending">>

\* session?.user ?? null
UserOfStale(s) == <<"user", 1>>
UserOf(s) == IF s = NULL THEN NULL ELSE <<"user", s[2]>>

\* localStorage.removeItem(key)
RemoveItemNoop(st, key) == st
RemoveItem(st, key) == st \ {key}

Toast(title, description, variant) ==
    [title |-> title, description |-> description, variant |-> variant]

NoEvent == [type |-> "NONE", session |-> NULL, origin |-> "none", authed |-> FALSE]

\* An auth event: its type and session, and where it comes from: "signOut"
\* for the SIGNED_OUT that a signOut() call of this component causes (authed:
\* `user` was non-null when that call was made), "provider" otherwise.
Event(type, s, origin, authed) ==
    [type |-> type, session |-> s, origin |-> origin, authed |-> authed]

\* The record of a step: which operation ran, the event it handled, what it
\* returned to its caller, the notifications it showed (the toast calls, in
\* order), whether it invoked the provider's orders query, the provider's
\* answer ("none", "ok", "nodata", "err"), the storage keys it removed, the
\* number of subscribed callbacks the provider invoked for the event,
\* whether the call that returned overlapped a signOut() that had succeeded,
\* and whether the mirrored user was non-null when the step began.
Step(op, ev, result, toasts, queried) ==
    [op |-> op, ev |-> ev, result |-> result, toasts |-> toasts, queried |-> queried,
     answer |-> "none", removed |-> {}, handlers |-> 0, overlapped |-> FALSE,
     hadUser |-> FALSE]

\* What a call gave its caller: nothing yet, a value, or a re-thrown error.
NoResult == <<"none">>
Resolved(v) == <<"resolved", v>>
Rejected(e) == <<"rejected", e>>

\* A call suspended at its await: the operation, the provider's answer
\* ("await" while there is none, "ok", "err") and its error message.
\* authed: signOut was called with a non-null `user`.  id: the identifier
\* createOrder made before its await.  peerOk: a signOut() that succeeded
\* returned while this call was suspended.
Call(op, st) ==
    [op |-> op, st |-> st, authed |-> FALSE, err |-> "", id |-> NULL, peerOk |-> FALSE]

\* Promises in flight settle in any order: they are kept as bags.
Add(bag, x) == bag (+) SetToBag({x})
Remove(bag, x) == bag (-) SetToBag({x})

----------------------------------------------------------------------------
(* Construction: useState initial values, before the effect has run *)

Init ==
    /\ session = NULL
    /\ user = NULL
    /\ isLoading = TRUE
    /\ storage \in {StorageKeys, {}}
    /\ phase = "rendered"
    /\ subs = 0
    /\ effUser = NULL
    /\ provSession \in {NULL, <<"session", 1>>}
    /\ events = <<>>
    /\ fetches = EmptyBag
    /\ calls = EmptyBag
    /\ last = Step("init", NoEvent, NoResult, <<>>, FALSE)
    /\ initialDone = FALSE
    /\ nInputs = 0

----------------------------------------------------------------------------
(* The effect, lines 26-69, deps [toast, user] *)

\* line 68: the cleanup React runs before the effect's next run and at
\* unmount releases the subscription the previous run made.
AfterCleanupKeep(n) == n
AfterCleanup(n) == IF n > 0 THEN n - 1 ELSE 0

\* The effect runs after the first render and again after every render in
\* which `user` differs from the one the current closure captured (`toast`,
\* the other dependency, comes from useToast and keeps its identity).  A re-run
\* first runs the previous cleanup (unsubscribe), then subscribes a handler
\* closing over the current `user` and issues getSession() again.
RunEffect ==
    /\ \/ phase = "rendered"
       \/ phase = "mounted" /\ user # effUser
    /\ phase' = "mounted"
    /\ subs' = AfterCleanup(subs) + 1
    /\ effUser' = user
    /\ fetches' = Add(fetches, Unread)
    /\ last' = Step("effect", NoEvent, NoResult, <<>>, FALSE)
    /\ UNCHANGED <<session, user, isLoading, storage, provSession, events, calls,
                   initialDone, nInputs>>

\* Unmount: the effect's cleanup, line 68.
Unmount ==
    /\ phase = "mounted"
    /\ phase' = "unmounted"
    /\ subs' = AfterCleanup(subs)
    /\ last' = Step("unmount", NoEvent, NoResult, <<>>, FALSE)
    /\ UNCHANGED <<session, user, isLoading, storage, effUser, provSession, events,
                   fetches, calls, initialDone, nInputs>>

----------------------------------------------------------------------------
(* The environment: the auth provider *)

\* What the provider does while no handler is subscribed reaches no handler:
\* it shows only in the session the provider holds at mount, which Init
\* leaves open, and in the events still in flight at unmount.
CanAct == phase = "mounted" /\ nInputs < MaxInputs

\* Another tab or device signs in: the provider's session changes and the
\* stream carries SIGNED_IN with the new session.
ExternalSignIn(s) ==
    /\ CanAct
    /\ s # provSession
    /\ provSession' = s
    /\ events' = Append(events, Event("SIGNED_IN", s, "provider", FALSE))
    /\ nInputs' = nInputs + 1
    /\ last' = Step("provider", NoEvent, NoResult, <<>>, FALSE)
    /\ UNCHANGED <<session, user, isLoading, storage, phase, subs, effUser,
                   fetches, calls, initialDone>>

\* The provider refreshes the token: a new session object, TOKEN_REFRESHED.
TokenRefresh(s) ==
    /\ CanAct
    /\ provSession # NULL
    /\ s # provSession
    /\ provSession' = s
    /\ events' = Append(events, Event("TOKEN_REFRESHED", s, "provider", FALSE))
    /\ nInputs' = nInputs + 1
    /\ last' = Step("provider", NoEvent, NoResult, <<>>, FALSE)
    /\ UNCHANGED <<session, user, isLoading, storage, phase, subs, effUser,
                   fetches, calls, initialDone>>

\* The session ends outside this component (another tab, expiry, revocation).
ExternalSignOut ==
    /\ CanAct
    /\ provSession # NULL
    /\ provSession' = NULL
    /\ events' = Append(events, Event("SIGNED_OUT", NULL, "provider", FALSE))
    /\ nInputs' = nInputs + 1
    /\ last' = Step("provider", NoEvent, NoResult, <<>>, FALSE)
    /\ UNCHANGED <<session, user, isLoading, storage, phase, subs, effUser,
                   fetches, calls, initialDone>>

----------------------------------------------------------------------------
(* The stream handler, lines 29-58 *)

\* lines 35-40
SignedInToastsNone(type) == <<>>
SignedInToasts(type) ==
    IF type = "SIGNED_IN"
    THEN <<Toast("Signed in successfully", "Welcome back to AgroConnect!", "default")>>
    ELSE <<>>

\* lines 42-50: `user` is the value the handler's closure captured
SignedOutToasts(type, s, closureUser) ==
    IF type = "SIGNED_OUT" /\ s = NULL /\ closureUser # NULL
    THEN <<Toast("Signed out successfully", "You have been signed out.", "default")>>
    ELSE <<>>

\* lines 52-54
StorageAfterEventKeep(type, st) == st
StorageAfterEvent(type, st) ==
    IF type = "SIGNED_OUT"
    THEN RemoveItem(RemoveItem(st, "cart"), "favorites")
    ELSE st

\* line 57 and line 65: setIsLoading(false)
LoadingAfterUpdateStuck == TRUE
LoadingAfterUpdate == FALSE

\* The provider invokes the subscribed callback with the oldest undelivered event.
Deliver ==
    /\ subs > 0
    /\ events # <<>>
    /\ LET e == Head(events) IN
        /\ session' = e.session
        /\ user' = UserOf(e.session)
        /\ storage' = StorageAfterEvent(e.type, storage)
        /\ isLoading' = LoadingAfterUpdate
        /\ last' = [Step("event", e, NoResult,
                         SignedInToasts(e.type) \o SignedOutToasts(e.type, e.session, effUser),
                         FALSE) EXCEPT !.removed = storage \ storage', !.handlers = subs,
                                       !.hadUser = (user # NULL)]
    /\ events' = Tail(events)
    /\ initialDone' = (initialDone \/ ~isLoading')
    /\ UNCHANGED <<phase, subs, effUser, provSession, fetches, calls, nInputs>>

\* An event emitted while no callback is subscribed reaches no handler.
DropEvent ==
    /\ subs = 0
    /\ events # <<>>
    /\ events' = Tail(events)
    /\ last' = Step("dropped", Head(events), NoResult, <<>>, FALSE)
    /\ UNCHANGED <<session, user, isLoading, storage, phase, subs, effUser,
                   provSession, fetches, calls, initialDone, nInputs>>

----------------------------------------------------------------------------
(* The session fetch, lines 62-66 *)

\* The provider reads its current session for a getSession() call in flight.
FetchRead ==
    /\ BagIn(Unread, fetches)
    /\ fetches' = Add(Remove(fetches, Unread), <<"read", provSession>>)
    /\ last' = Step("provider", NoEvent, NoResult, <<>>, FALSE)
    /\ UNCHANGED <<session, user, isLoading, storage, phase, subs, effUser,
                   provSession, events, calls, initialDone, nInputs>>

\* The .then callback, lines 62-66, with the session the provider read.
FetchResolve(f) ==
    /\ BagIn(f, fetches)
    /\ f # Unread
    /\ session' = f[2]
    /\ user' = UserOf(f[2])
    /\ isLoading' = LoadingAfterUpdate
    /\ fetches' = Remove(fetches, f)
    /\ last' = Step("fetch", NoEvent, NoResult, <<>>, FALSE)
    /\ initialDone' = (initialDone \/ ~isLoading')
    /\ UNCHANGED <<storage, phase, subs, effUser, provSession, events, calls, nInputs>>

----------------------------------------------------------------------------
(* signOut, lines 110-134 *)

\* The UI calls an operation of the context while the provider is mounted.
CanCall == phase = "mounted" /\ nInputs < MaxInputs

\* line 112, then the await of line 113
SignOutCall ==
    /\ CanCall
    /\ isLoading' = TRUE
    /\ calls' = Add(calls, [Call("signOut", "await") EXCEPT !.authed = (user # NULL)])
    /\ nInputs' = nInputs + 1
    /\ last' = Step("signOutCall", NoEvent, NoResult, <<>>, FALSE)
    /\ UNCHANGED <<session, user, storage, phase, subs, effUser, provSession,
                   events, fetches, initialDone>>

\* The provider ends the session and emits SIGNED_OUT.
ProviderSignOutOk(c) ==
    /\ BagIn(c, calls)
    /\ c.op = "signOut" /\ c.st = "await"
    /\ provSession' = NULL
    /\ events' = Append(events, Event("SIGNED_OUT", NULL, "signOut", c.authed))
    /\ calls' = Add(Remove(calls, c), [c EXCEPT !.st = "ok"])
    /\ last' = Step("provider", NoEvent, NoResult, <<>>, FALSE)
    /\ UNCHANGED <<session, user, isLoading, storage, phase, subs, effUser,
                   fetches, initialDone, nInputs>>

\* The provider answers with an error; its session stays as it is.
ProviderSignOutErr(c, err) ==
    /\ BagIn(c, calls)
    /\ c.op = "signOut" /\ c.st = "await"
    /\ calls' = Add(Remove(calls, c), [c EXCEPT !.st = "err", !.err = err])
    /\ last' = Step("provider", NoEvent, NoResult, <<>>, FALSE)
    /\ UNCHANGED <<session, user, isLoading, storage, phase, subs, effUser,
                   provSession, events, fetches, initialDone, nInputs>>

\* lines 121-122
StorageAfterSignOutKeep(st) == st
StorageAfterSignOut(st) == RemoveItem(RemoveItem(st, "cart"), "favorites")

\* The signOut() calls still suspended when one that succeeded returns have
\* overlapped it: each call runs lines 110-134 on its own.
SawPeerOk(c) == IF c.op = "signOut" THEN [c EXCEPT !.peerOk = TRUE] ELSE c

\* The suspended calls after SawPeerOk, with their multiplicities.
MarkPeers(bag) ==
    [y \in {SawPeerOk(x) : x \in BagToSet(bag)} |->
        BagCardinality([x \in {z \in BagToSet(bag) : SawPeerOk(z) = y} |-> bag[x]])]

\* lines 125-129
SignOutErrorToastsNone(err) == <<>>
SignOutErrorToasts(err) == <<Toast("Error signing out", err, "destructive")>>

\* lines 131-133: finally { setIsLoading(false) }
LoadingAfterSignOut == FALSE

\* The continuation after the await: lines 114-122 and 131-133 on success,
\* lines 124-133 when the provider reported an error.
SignOutReturn(c) ==
    /\ BagIn(c, calls)
    /\ c.op = "signOut" /\ c.st \in {"ok", "err"}
    /\ IF c.st = "ok"
       THEN /\ session' = NULL
            /\ user' = NULL
            /\ storage' = StorageAfterSignOut(storage)
            /\ calls' = MarkPeers(Remove(calls, c))
            /\ last' = [Step("signOut", NoEvent, Resolved(NULL), <<>>, FALSE)
                            EXCEPT !.answer = "ok", !.removed = storage \ storage',
                                   !.overlapped = c.peerOk]
       ELSE /\ UNCHANGED <<session, user, storage>>
            /\ calls' = Remove(calls, c)
            /\ last' = [Step("signOut", NoEvent, Rejected(c.err),
                             SignOutErrorToasts(c.err), FALSE) EXCEPT !.answer = "err"]
    /\ isLoading' = LoadingAfterSignOut
    /\ initialDone' = (initialDone \/ ~isLoading')
    /\ UNCHANGED <<phase, subs, effUser, provSession, events, fetches, nInputs>>

----------------------------------------------------------------------------
(* signUp, lines 71-94, and signIn, lines 96-108 *)

\* After their await, signUp, signIn and getUserOrders read and write nothing
\* but the provider's answer and the notification: the call and its
\* continuation are one step.

Mirror == [session |-> session, user |-> user, isLoading |-> isLoading, storage |-> storage]

\* signUp has no setSession/setUser/setIsLoading and no localStorage call:
\* the mirrored state after it is the state before it.
MirrorAfterSignUp(cur) == cur

\* signIn likewise: the session the provider created is not read from the answer.
MirrorAfterSignInFromAnswer(cur, answer) ==
    IF answer = NULL THEN cur
    ELSE [cur EXCEPT !.session = answer, !.user = UserOf(answer)]
MirrorAfterSignIn(cur, answer) == cur

\* lines 82-85
SignUpOkToasts ==
    <<Toast("Account created successfully",
            "Please check your email to verify your account.", "default")>>

\* lines 87-91
SignUpErrorToasts(err) == <<Toast("Error signing up", err, "destructive")>>

\* lines 100-105
SignInErrorToastsNone(err) == <<>>
SignInErrorToasts(err) == <<Toast("Error signing in", err, "destructive")>>

\* The provider registers the account; there is no session until the email
\* is verified.
SignUpOk ==
    /\ CanCall
    /\ LET m == MirrorAfterSignUp(Mirror) IN
        /\ session' = m.session
        /\ user' = m.user
        /\ isLoading' = m.isLoading
        /\ storage' = m.storage
    /\ last' = [Step("signUp", NoEvent, Resolved(NULL), SignUpOkToasts, FALSE)
                    EXCEPT !.answer = "ok"]
    /\ nInputs' = nInputs + 1
    /\ initialDone' = (initialDone \/ ~isLoading')
    /\ UNCHANGED <<phase, subs, effUser, provSession, events, fetches, calls>>

\* The provider answers with an error: lines 81 and 86-93.
SignUpErr(err) ==
    /\ CanCall
    /\ LET m == MirrorAfterSignUp(Mirror) IN
        /\ session' = m.session
        /\ user' = m.user
        /\ isLoading' = m.isLoading
        /\ storage' = m.storage
    /\ last' = [Step("signUp", NoEvent, Rejected(err), SignUpErrorToasts(err), FALSE)
                    EXCEPT !.answer = "err"]
    /\ nInputs' = nInputs + 1
    /\ initialDone' = (initialDone \/ ~isLoading')
    /\ UNCHANGED <<phase, subs, effUser, provSession, events, fetches, calls>>

\* line 98: the provider accepts the credentials, creates session s and
\* emits SIGNED_IN; the continuation shows nothing.
SignInOk(s) ==
    /\ CanCall
    /\ s # provSession
    /\ provSession' = s
    /\ events' = Append(events, Event("SIGNED_IN", s, "provider", FALSE))
    /\ LET m == MirrorAfterSignIn(Mirror, s) IN
        /\ session' = m.session
        /\ user' = m.user
        /\ isLoading' = m.isLoading
        /\ storage' = m.storage
    /\ last' = [Step("signIn", NoEvent, Resolved(NULL), <<>>, FALSE) EXCEPT !.answer = "ok"]
    /\ nInputs' = nInputs + 1
    /\ initialDone' = (initialDone \/ ~isLoading')
    /\ UNCHANGED <<phase, subs, effUser, fetches, calls>>

\* The provider rejects the credentials: lines 99-107.
SignInErr(err) ==
    /\ CanCall
    /\ LET m == MirrorAfterSignIn(Mirror, NULL) IN
        /\ session' = m.session
        /\ user' = m.user
        /\ isLoading' = m.isLoading
        /\ storage' = m.storage
    /\ last' = [Step("signIn", NoEvent, Rejected(err), SignInErrorToasts(err), FALSE)
                    EXCEPT !.answer = "err"]
    /\ nInputs' = nInputs + 1
    /\ initialDone' = (initialDone \/ ~isLoading')
    /\ UNCHANGED <<phase, subs, effUser, provSession, events, fetches, calls>>

----------------------------------------------------------------------------
(* getUserOrders, lines 137-168 *)

\* line 138: if (!user) return []
NoUserNever(u) == FALSE
NoUser(u) == u = NULL

\* line 156: .order('created_at', { ascending: false })
QueryAscending == FALSE

Max(S) == CHOOSE x \in S : \A y \in S : y <= x
Min(S) == CHOOSE x \in S : \A y \in S : x <= y

\* The provider's answer to the orders query: the rows (each identified by
\* its created_at) sorted as the query asks.
RECURSIVE Ordered(_, _)
Ordered(rows, ascending) ==
    IF rows = {} THEN <<>>
    ELSE LET first == IF ascending THEN Min(rows) ELSE Max(rows)
         IN <<first>> \o Ordered(rows \ {first}, ascending)

\* The user's rows in the orders table.
OrderRows == 1..MaxOrders

\* line 159: return orders || []
OrEmpty(hasData, data) == IF hasData THEN data ELSE <<>>

\* lines 160-167: the catch block notifies and returns []
OrdersCatchRethrow(err) == Rejected(err)
OrdersCatch(err) == Resolved(<<>>)

\* lines 161-165
OrdersErrorToasts(err) == <<Toast("Error fetching orders", err, "destructive")>>

\* line 138 taken: the call returns [] at once.
GetUserOrdersNoUser ==
    /\ CanCall
    /\ NoUser(user)
    /\ last' = Step("getUserOrders", NoEvent, Resolved(<<>>), <<>>, FALSE)
    /\ nInputs' = nInputs + 1
    /\ UNCHANGED <<session, user, isLoading, storage, phase, subs, effUser,
                   provSession, events, fetches, calls, initialDone>>

\* lines 141-159: the query is sent and the provider answers with the rows
\* (hasData) or with neither rows nor error.
GetUserOrdersOk(hasData) ==
    /\ CanCall
    /\ ~NoUser(user)
    /\ last' = [Step("getUserOrders", NoEvent,
                     Resolved(OrEmpty(hasData, Ordered(OrderRows, QueryAscending))),
                     <<>>, TRUE) EXCEPT !.answer = IF hasData THEN "ok" ELSE "nodata"]
    /\ nInputs' = nInputs + 1
    /\ UNCHANGED <<session, user, isLoading, storage, phase, subs, effUser,
                   provSession, events, fetches, calls, initialDone>>

\* lines 141-158 and 160-167: the query is sent and the provider answers
\* with an error.
GetUserOrdersErr(err) ==
    /\ CanCall
    /\ ~NoUser(user)
    /\ last' = [Step("getUserOrders", NoEvent, OrdersCatch(err), OrdersErrorToasts(err), TRUE)
                    EXCEPT !.answer = "err"]
    /\ nInputs' = nInputs + 1
    /\ UNCHANGED <<session, user, isLoading, storage, phase, subs, effUser,
                   provSession, events, fetches, calls, initialDone>>

----------------
(* createOrder, lines 171-186 *)

\* line 176: `order_${Date.now()}_${Math.random()...}`, a string
OrderIds == {<<"order_", "now", "random">>}

\* line 172 taken: the call returns null at once.
CreateOrderNoUser ==
    /\ CanCall
    /\ user = NULL
    /\ last' = Step("createOrder", NoEvent, Resolved(NULL), <<>>, FALSE)
    /\ nInputs' = nInputs + 1
    /\ UNCHANGED <<session, user, isLoading, storage, phase, subs, effUser,
                   provSession, events, fetches, calls, initialDone>>

\* lines 176-179: the identifier is made and the timer is started.
CreateOrderCall(id) ==
    /\ CanCall
    /\ user # NULL
    /\ calls' = Add(calls, [Call("createOrder", "ok") EXCEPT !.id = id])
    /\ nInputs' = nInputs + 1
    /\ last' = Step("createOrder", NoEvent, NoResult, <<>>, FALSE)
    /\ UNCHANGED <<session, user, isLoading, storage, phase, subs, effUser,
                   provSession, events, fetches, initialDone>>

\* line 181: return orderId
CreateOrderResultNull(id) == Resolved(NULL)
CreateOrderResult(id) == Resolved(id)

\* line 181, after the timer of line 179 has fired.
CreateOrderReturn(c) ==
    /\ BagIn(c, calls)
    /\ c.op = "createOrder"
    /\ last' = Step("createOrderReturn", NoEvent, CreateOrderResult(c.id), <<>>, FALSE)
    /\ calls' = Remove(calls, c)
    /\ UNCHANGED <<session, user, isLoading, storage, phase, subs, effUser,
                   provSession, events, fetches, initialDone, nInputs>>

----------------------------------------------------------------------------
(* useAuth, lines 204-210, and the context, lines 18 and 188-200 *)

\* line 18: createContext<AuthContextType | undefined>(undefined)
Undefined == <<"undefined">>

Operations == {"signUp", "signIn", "signOut", "getUserOrders", "createOrder"}

\* lines 189-198: the value the provider gives its subtree
ContextValue ==
    <<"context", [session |-> session, user |-> user, isLoading |-> isLoading,
                  operations |-> Operations]>>

\* line 205: useContext(AuthContext) gives the nearest provider's value, or
\* the default of line 18 when the caller is under no AuthProvider.
UseContext(inside) == IF inside THEN ContextValue ELSE Undefined

\* A synchronous throw
Thrown(e) == <<"thrown", e>>

\* lines 204-210
useAuthUnchecked(context) == Resolved(context)
useAuth(context) ==
    IF context = Undefined
    THEN Thrown("useAuth must be used within an AuthProvider")
    ELSE Resolved(context)

\* A component calls useAuth() while rendering, inside the provider's subtree
\* (which exists while the provider is rendered) or outside of it.
UseAuth(inside) ==
    /\ inside => phase \in {"rendered", "mounted"}
    /\ last' = [Step("useAuth", NoEvent, useAuth(UseContext(inside)), <<>>, FALSE)
                    EXCEPT !.answer = IF inside THEN "inside" ELSE "outside"]
    /\ UNCHANGED <<session, user, isLoading, storage, phase, subs, effUser,
                   provSession, events, fetches, calls, initialDone, nInputs>>

----------------------------------------------------------------------------
(* The specification *)

Next ==
    \/ RunEffect
    \/ Unmount
    \/ \E s \in Sessions : ExternalSignIn(s)
    \/ \E s \in Sessions : TokenRefresh(s)
    \/ ExternalSignOut
    \/ Deliver
    \/ DropEvent
    \/ FetchRead
    \/ \E f \in BagToSet(fetches) : FetchResolve(f)
    \/ SignOutCall
    \/ \E c \in BagToSet(calls) : ProviderSignOutOk(c)
    \/ \E c \in BagToSet(calls), err \in Errors : ProviderSignOutErr(c, err)
    \/ \E c \in BagToSet(calls) : SignOutReturn(c)
    \/ SignUpOk
    \/ \E err \in Errors : SignUpErr(err)
    \/ \E s \in Sessions : SignInOk(s)
    \/ \E err \in Errors : SignInErr(err)
    \/ GetUserOrdersNoUser
    \/ \E hasData \in BOOLEAN : GetUserOrdersOk(hasData)
    \/ \E err \in Errors : GetUserOrdersErr(err)
    \/ CreateOrderNoUser
    \/ \E id \in OrderIds : CreateOrderCall(id)
    \/ \E c \in BagToSet(calls) : CreateOrderReturn(c)

Spec == Init /\ [][Next]_vars

\* The provider together with the components that call useAuth().
NextWithConsumers ==
    \/ Next
    \/ \E inside \in BOOLEAN : UseAuth(inside)

SpecWithConsumers == Init /\ [][NextWithConsumers]_vars

----------------------------------------------------------------------------
(* Properties *)

Titles(toasts) == [k \in 1..Len(toasts) |-> toasts[k].title]

HasResolved == last.result[1] = "resolved"
HasRejected == last.result[1] = "rejected"

\* A SIGNED_OUT event of a signOut() call made with a non-null user is in flight.
OwnSignedOutInFlight ==
    \E k \in 1..Len(events) : events[k].origin = "signOut" /\ events[k].authed

SignOutInProgress == \E c \in BagToSet(calls) : c.op = "signOut"

\* C1: after every handled stream event, fetch resolution and signOut step,
\* in any interleaving, the mirrored user is non-null iff the mirrored
\* session is non-null.
C1_UserIffSession == (user # NULL) <=> (session # NULL)

\* C1 witness: a stream event has been handled and left a session and a user.
C1_Witness == last.op = "event" /\ session # NULL /\ user # NULL

\* C2: when a signOut() call completes after the provider reported success,
\* session and user are null, isLoading is false and local storage holds
\* neither "cart" nor "favorites".
C2_SignOutSuccess ==
    (last.op = "signOut" /\ HasResolved) =>
        /\ session = NULL
        /\ user = NULL
        /\ ~isLoading
        /\ "cart" \notin storage
        /\ "favorites" \notin storage

\* C2 witness: a signOut() made with a user has completed with success, its
\* continuation removed both keys, and its SIGNED_OUT event is still in flight.
C2_Witness ==
    /\ last.op = "signOut" /\ HasResolved
    /\ last.removed = {"cart", "favorites"}
    /\ OwnSignedOutInFlight

\* C3: the SIGNED_OUT event caused by a successful signOut() that was called
\* with user and session non-null never produces a "Signed out successfully"
\* notification, whenever it is delivered.
C3_NoNotificationForOwnSignOut ==
    (last.op = "event" /\ last.ev.origin = "signOut" /\ last.ev.authed) =>
        \A k \in 1..Len(last.toasts) : last.toasts[k].title # "Signed out successfully"

\* C4: isLoading goes from false to true only in the first step of a
\* signOut() call (no stream event, fetch resolution, signUp, signIn,
\* getUserOrders or createOrder sets it), and once it has been false it is
\* true only while a signOut() call is in progress.
C4_LoadingOnlyDuringSignOut ==
    /\ [][(~isLoading /\ isLoading') => last'.op = "signOutCall"]_vars
    /\ []((isLoading /\ initialDone) => SignOutInProgress)

\* C4 witness: isLoading is true again after it had been false, during a signOut().
C4_Witness == isLoading /\ initialDone /\ last.op = "signOutCall"

\* C5: after a successful signOut() call and after every SIGNED_OUT stream
\* event, shown as a notification or not, local storage holds neither
\* "cart" nor "favorites".
C5_StorageClearedOnSignOut ==
    (\/ last.op = "signOut" /\ HasResolved
     \/ last.op = "event" /\ last.ev.type = "SIGNED_OUT") =>
        ("cart" \notin storage /\ "favorites" \notin storage)

\* C5 witness: a SIGNED_OUT event from outside has been handled without a
\* notification, and the handler removed both keys.
C5_Witness ==
    /\ last.op = "event" /\ last.ev.type = "SIGNED_OUT" /\ last.ev.origin = "provider"
    /\ last.toasts = <<>>
    /\ last.removed = {"cart", "favorites"}

\* C6: the continuation of a signOut() for which the provider reported a
\* failure shows exactly one destructive "Error signing out" notification
\* with the provider's message, rejects with that error, leaves session,
\* user and local storage as they are and leaves isLoading false.
C6_SignOutFailure ==
    [][(last'.op = "signOut" /\ last'.result[1] = "rejected") =>
          /\ last'.toasts = <<[title |-> "Error signing out",
                               description |-> last'.result[2],
                               variant |-> "destructive"]>>
          /\ session' = session
          /\ user' = user
          /\ storage' = storage
          /\ ~isLoading']_vars

\* C6 witness: a signOut() has failed while a session, a user and both
\* storage keys were there, and they still are.
C6_Witness ==
    /\ last.op = "signOut" /\ HasRejected
    /\ session # NULL /\ user # NULL
    /\ storage = {"cart", "favorites"}
    /\ ~isLoading

\* C7: after the handler has run for a SIGNED_IN event carrying session S,
\* isLoading is false, the mirrored session is S, the mirrored user is S's
\* user, and the handler has shown exactly one notification, "Signed in
\* successfully".
C7_SignedInEvent ==
    (last.op = "event" /\ last.ev.type = "SIGNED_IN") =>
        /\ ~isLoading
        /\ session = last.ev.session
        /\ session # NULL
        /\ user = <<"user", last.ev.session[2]>>
        /\ Titles(last.toasts) = <<"Signed in successfully">>

\* C7 witness: a SIGNED_IN event carrying session 1 has been handled while
\* isLoading was still to be cleared by the fetch.
C7_Witness ==
    /\ last.op = "event" /\ last.ev.type = "SIGNED_IN"
    /\ last.ev.session = <<"session", 1>>
    /\ fetches # EmptyBag

\* C8: getUserOrders() called while user is null returns an empty sequence,
\* does not invoke the provider's query and shows no notification.
C8_OrdersWithoutUser ==
    (last.op = "getUserOrders" /\ user = NULL) =>
        /\ HasResolved
        /\ last.result[2] = <<>>
        /\ ~last.queried
        /\ last.toasts = <<>>

\* C8 witness: getUserOrders() has returned while user is null.
C8_Witness == last.op = "getUserOrders" /\ user = NULL /\ HasResolved

IsDescending(seq) == \A k \in 1..(Len(seq) - 1) : seq[k] > seq[k + 1]

Range(seq) == {seq[k] : k \in 1..Len(seq)}

\* C9: getUserOrders() called with a user never rejects; when the provider's
\* query fails it returns an empty sequence and shows exactly one
\* notification; when the query succeeds it shows none and returns the
\* provider's rows, sorted by created_at descending.
C9_OrdersWithUser ==
    (last.op = "getUserOrders" /\ last.queried) =>
        /\ HasResolved
        /\ (last.answer = "err") =>
              /\ last.result[2] = <<>>
              /\ Titles(last.toasts) = <<"Error fetching orders">>
              /\ last.toasts[1].variant = "destructive"
        /\ (last.answer = "ok") =>
              /\ last.toasts = <<>>
              /\ Range(last.result[2]) = OrderRows
              /\ Len(last.result[2]) = Cardinality(OrderRows)
              /\ IsDescending(last.result[2])
        /\ (last.answer = "nodata") =>
              /\ last.toasts = <<>>
              /\ last.result[2] = <<>>

\* C9 witness: a query has failed and the call returned the empty sequence.
C9_Witness ==
    /\ last.op = "getUserOrders" /\ last.queried
    /\ last.answer = "err" /\ HasResolved
    /\ Len(last.toasts) = 1

\* C10: signUp and signIn, on success and on failure, leave session, user,
\* isLoading and local storage as they are; the mirrored session and user
\* are set to non-null values only by the stream handler and the fetch.
C10_SignUpSignInFrame ==
    [][/\ (last'.op \in {"signUp", "signIn"}) =>
              /\ session' = session
              /\ user' = user
              /\ isLoading' = isLoading
              /\ storage' = storage
       /\ ((session' # session /\ session' # NULL) \/ (user' # user /\ user' # NULL)) =>
              last'.op \in {"event", "fetch"}]_vars

\* C10 witness: signIn has succeeded at the provider and returned, and the
\* mirrored session is still null.
C10_Witness ==
    /\ last.op = "signIn" /\ HasResolved
    /\ provSession # NULL
    /\ session = NULL /\ user = NULL

\* C11: a failed signUp or signIn shows exactly one destructive notification
\* carrying the provider's error message and rejects with that error; a
\* successful signUp shows exactly one notification, asking to check the
\* email; a successful signIn shows no notification itself.
C11_SignUpSignInNotifications ==
    /\ (last.op \in {"signUp", "signIn"} /\ last.answer = "err") =>
          /\ HasRejected
          /\ Len(last.toasts) = 1
          /\ last.toasts[1].variant = "destructive"
          /\ last.toasts[1].description = last.result[2]
          /\ last.toasts[1].description \in Errors
          /\ last.toasts[1].title =
                 (IF last.op = "signUp" THEN "Error signing up" ELSE "Error signing in")
    /\ (last.op = "signUp" /\ last.answer = "ok") =>
          /\ HasResolved
          /\ Len(last.toasts) = 1
          /\ last.toasts[1].title = "Account created successfully"
          /\ last.toasts[1].description = "Please check your email to verify your account."
    /\ (last.op = "signIn" /\ last.answer = "ok") =>
          /\ HasResolved
          /\ last.toasts = <<>>
    /\ (\E k \in 1..Len(last.toasts) : last.toasts[k].title = "Signed in successfully") =>
          (last.op = "event" /\ last.ev.type = "SIGNED_IN")

\* C11 witness: signIn has failed and shown its one notification.
C11_Witness ==
    /\ last.op = "signIn" /\ last.answer = "err"
    /\ HasRejected
    /\ Len(last.toasts) = 1

\* C12: createOrder() called while user is null returns null at once; called
\* with a user it suspends on the timer and then resolves with the string
\* identifier it made, never rejecting; in neither case does it call the
\* provider or change session, user, isLoading or local storage.
C12_CreateOrder ==
    /\ []((last.op = "createOrder" /\ user = NULL) => last.result = Resolved(NULL))
    /\ []((last.op = "createOrder" /\ user # NULL) =>
             /\ last.result = NoResult
             /\ \E c \in BagToSet(calls) : c.op = "createOrder" /\ c.id \in OrderIds)
    /\ [](last.op = "createOrderReturn" =>
             /\ HasResolved
             /\ last.result[2] \in OrderIds)
    /\ [][(last'.op \in {"createOrder", "createOrderReturn"}) =>
             /\ session' = session
             /\ user' = user
             /\ isLoading' = isLoading
             /\ storage' = storage
             /\ provSession' = provSession
             /\ events' = events
             /\ fetches' = fetches
             /\ ~last'.queried
             /\ last'.toasts = <<>>]_vars

\* C12 witness: createOrder() called with a user has resolved with its identifier.
C12_Witness ==
    /\ last.op = "createOrderReturn"
    /\ HasResolved
    /\ last.result[2] \in OrderIds
    /\ user # NULL

\* C13: at unmount the stream subscription is released: from then on no
\* subscription is active, and an event the provider delivers reaches no
\* handler: it changes none of session, user, isLoading, shows no
\* notification and removes no storage key.
C13_NoEventAfterUnmount ==
    /\ [](phase = "unmounted" => subs = 0)
    /\ [][(phase = "unmounted" /\ last'.op \in {"event", "dropped"}) =>
             /\ last'.op = "dropped"
             /\ session' = session
             /\ user' = user
             /\ isLoading' = isLoading
             /\ storage' = storage
             /\ last'.toasts = <<>>
             /\ last'.removed = {}
             /\ last'.handlers = 0]_vars

\* C13 witness: after unmount a SIGNED_OUT event found no handler; the
\* session, the user and both storage keys are still there.
C13_Witness ==
    /\ phase = "unmounted"
    /\ last.op = "dropped" /\ last.ev.type = "SIGNED_OUT"
    /\ session # NULL /\ user # NULL
    /\ storage = {"cart", "favorites"}

\* C14: useAuth() called outside an AuthProvider subtree throws the usage
\* error and returns no context; called inside, it returns the context with
\* the session, user and isLoading of that render and the five operations.
C14_UseAuth ==
    (last.op = "useAuth") =>
        /\ (last.answer = "outside") =>
              last.result = Thrown("useAuth must be used within an AuthProvider")
        /\ (last.answer = "inside") =>
              /\ HasResolved
              /\ last.result[2][1] = "context"
              /\ last.result[2][2].session = session
              /\ last.result[2][2].user = user
              /\ last.result[2][2].isLoading = isLoading
              /\ last.result[2][2].operations =
                     {"signUp", "signIn", "signOut", "getUserOrders", "createOrder"}

\* C14 witness: useAuth() has thrown for a caller outside the subtree of a
\* mounted provider that holds a session.
C14_Witness ==
    /\ last.op = "useAuth" /\ last.answer = "outside"
    /\ last.result[1] = "thrown"
    /\ phase = "mounted" /\ session # NULL

\* C15: getSession() is issued only by the effect's run at mount: no later
\* step, whatever changed session or user before it, issues it again.
C15_FetchIssuedOnlyAtMount ==
    [][(CopiesIn(Unread, fetches') > CopiesIn(Unread, fetches)) => phase = "rendered"]_vars

\* C16: after mount isLoading stays true until the stream handler has run or
\* a getSession() has resolved: the step that first makes it false is one of
\* these two.
C16_LoadingUntilHandlerOrFetch ==
    [][(isLoading /\ ~isLoading' /\ ~initialDone) => last'.op \in {"event", "fetch"}]_vars

\* C17: when a signOut() that the provider answered with success returns
\* after another successful signOut() it overlapped has returned, session and
\* user are null, isLoading is false and local storage holds neither "cart"
\* nor "favorites", however the two calls and the stream events interleaved.
C17_OverlappingSignOuts ==
    (last.op = "signOut" /\ HasResolved /\ last.overlapped) =>
        /\ session = NULL
        /\ user = NULL
        /\ ~isLoading
        /\ storage \cap {"cart", "favorites"} = {}

\* C17 witness: the second of two overlapping successful calls has returned;
\* the SIGNED_OUT event of one has been handled, that of the other is still
\* undelivered.
C17_Witness ==
    /\ last.op = "signOut" /\ HasResolved /\ last.overlapped
    /\ ~SignOutInProgress
    /\ Len(events) = 1 /\ events[1].origin = "signOut"

\* C18: at most one stream subscription is active at any time, exactly one
\* while the component is mounted across every re-run of the effect, and
\* none after unmount; every event the provider delivers is handled by at
\* most one callback.
C18_OneSubscription ==
    /\ subs <= 1
    /\ phase = "mounted" => subs = 1
    /\ phase = "unmounted" => subs = 0
    /\ last.op = "event" => last.handlers <= 1

\* C18 witness: the effect has run again after `user` became non-null, and
\* the subscription it made has handled an event, once.
C18_Witness ==
    /\ phase = "mounted" /\ effUser # NULL
    /\ last.op = "event" /\ last.handlers = 1

\* C19: a getSession() result that resolves late never replaces a newer
\* session: when a fetch resolves while the component is mounted, every
\* stream event has been handled and no signOut() is in progress, the
\* mirrored session is the provider's current session.
C19_LateFetchKeepsNewerSession ==
    (/\ phase = "mounted"
     /\ last.op = "fetch"
     /\ events = <<>>
     /\ ~SignOutInProgress) => session = provSession

\* C20: when the handler is invoked with a SIGNED_OUT event that no signOut()
\* of this component caused, it shows exactly one "Signed out successfully"
\* notification if the mirrored user was non-null and none if it was null;
\* afterwards session and user are null and isLoading is false.
C20_ExternalSignOut ==
    (last.op = "event" /\ last.ev.type = "SIGNED_OUT" /\ last.ev.origin = "provider") =>
        /\ Titles(last.toasts) =
              IF last.hadUser THEN <<"Signed out successfully">> ELSE <<>>
        /\ session = NULL
        /\ user = NULL
        /\ ~isLoading

====
